---- MODULE Spec2Model ----
(***************************************************************************)
(* A model of cachelab.c: a set-associative cache simulator with LRU       *)
(* replacement.  Each set is a doubly linked list of heap-allocated        *)
(* blocks (most recently used at the head); main builds the cache,         *)
(* replayTrace feeds accessData one or two addresses per trace record.     *)
(*                                                                         *)
(* Addresses are 64-bit unsigned values.  They are represented by the set  *)
(* of the positions of their 1-bits (bit 0 is the least significant), so   *)
(* that shifts, masks and the conversion to a 32-bit int are computed      *)
(* exactly.  A tag, being an int, is the set of 1-bits of its 32-bit       *)
(* two's-complement pattern.                                               *)
(***************************************************************************)
EXTENDS Integers, Sequences, FiniteSets, TLC

\* ---------------------------------------------------------------- bounds
MaxS == 1        \* largest number of set-index bits tried
MaxB == 1        \* largest number of block-offset bits tried
MaxE == 3        \* largest associativity tried
MaxTrace == 5    \* largest number of trace records replayed
MaxDeep == 7     \* largest number of trace records replayed by SpecDeep

\* ------------------------------------------------------ program constants
ADDRESS_LENGTH == 64   \* width of mem_addr_t
IntBits == 32          \* width of int (the type of a block's tag)
NULL == 0              \* the null pointer; block addresses are 1, 2, ...
Uninit == 0 - 1        \* content of a pointer field that was never written
Loops == 0 - 2         \* marks a list walk that never reaches its end

\* The addresses a trace may carry.  With s = b = 1: 0, 4, 8, 12 are four
\* tags of set 0 and 2 is in set 1.
Addrs == { {}, {2}, {3}, {2, 3}, {1} }

\* Four addresses of one set when s = b = 1: 0, 4, 8, 12.
DeepAddrs == { {}, {2}, {3}, {2, 3} }

\* 0, 4, and 2^34 and 2^35, which differ from 0 only in bits that lie
\* above the 32 bits of an int once shifted right by s + b <= 3; and
\* 0x3fffffffc, whose tag is the int -1 when s = b = 1.
WideAddrs == { {}, {2}, {34}, {35}, 2 .. 33 }

VARIABLES
  s, E, b,            \* globals set from the command line
  pc,                 \* position of the process: start, replay, modify,
                      \* done, rejected, crashed
  blocks,             \* the heap: block address -> cache_block
  LRU_head, LRU_tail, \* c1.sets[i].LRU_head / LRU_tail
  size,               \* size[i]
  set_index,          \* global set_index
  hit_count, miss_count, eviction_count,
  addr,               \* replayTrace's local addr
  nrec,               \* number of records read so far
  out,                \* what the last accessData call did
  mru,                \* per set, by recency of access: for each block, the
                      \* whole address >> (s+b) of the access that filled it
  ref,                \* reference LRU cache: per set, tags by recency
  expected,           \* accesses owed by the records processed so far
  nomem               \* a malloc call of this run has returned NULL

vars == << s, E, b, pc, blocks, LRU_head, LRU_tail, size, set_index,
           hit_count, miss_count, eviction_count, addr, nrec,
           out, mru, ref, expected, nomem >>

\* ------------------------------------------------------- bit arithmetic
RECURSIVE Pow2(_)
Pow2(n) == IF n = 0 THEN 1 ELSE 2 * Pow2(n - 1)

\* a >> k on a 64-bit unsigned value
ShiftRight(a, k) == { i - k : i \in { j \in a : j >= k } }

\* (1 << n) - 1
LowMask(n) == 0 .. (n - 1)

\* conversion of an unsigned 64-bit value to int: the low 32 bits remain
ToInt(a) == { i \in a : i < IntBits }

\* the numeric value of a small non-negative bit pattern
RECURSIVE Value(_)
Value(a) == IF a = {} THEN 0
            ELSE LET i == CHOOSE x \in a : TRUE
                 IN  Pow2(i) + Value(a \ {i})

\* set_index = addr & ((1<<s) - 1): line 120 without the shift by b
SetIndexNoShift(a) == Value(a \cap LowMask(s))

\* set_index = (addr >> b) & ((1<<s) - 1);
SetIndex(a) == Value(ShiftRight(a, b) \cap LowMask(s))

\* int tag = (addr >> (s + b));
Tag(a) == ToInt(ShiftRight(a, s + b))

\* the int -1 (all 32 bits set), the tag main gives a set's first block
MinusOne == 0 .. (IntBits - 1)

\* ------------------------------------------------------------ the heap
\* a cache_block
Block(t, v, n, p) == [tag |-> t, valid |-> v, next |-> n, prev |-> p]

\* malloc: an address not in use (the lowest one, block addresses being
\* compared with nothing but NULL)
Malloc(bl) == CHOOSE n \in 1 .. (Cardinality(DOMAIN bl) + 1) :
                 /\ n \notin DOMAIN bl
                 /\ \A m \in 1 .. (n - 1) : m \in DOMAIN bl

\* free(p)
Free(bl, p) == [x \in (DOMAIN bl) \ {p} |-> bl[x]]

\* the heap after temp = malloc(...) and the four stores to *temp
Store(bl, p, blk) == [x \in (DOMAIN bl) \cup {p} |-> IF x = p THEN blk ELSE bl[x]]

\* p can be dereferenced: it is not NULL and was not freed
Live(bl, p) == p \in DOMAIN bl

\* what a dereference of p does when p is not live
Fault(p) == IF p = NULL THEN "segv" ELSE "uaf"

\* the blocks reached from p by next pointers, front to back (the walk
\* stops at NULL, at a freed block and after Cardinality(DOMAIN bl) blocks)
RECURSIVE Chain(_, _, _)
Chain(bl, p, fuel) ==
  IF fuel = 0 \/ ~Live(bl, p) THEN << >>
  ELSE << p >> \o Chain(bl, bl[p].next, fuel - 1)

List(i) == Chain(blocks, LRU_head[i], Cardinality(DOMAIN blocks))

\* while (curr->next != NULL && curr->tag != tag) curr = curr->next;
\* yields the block the loop stops at, or the pointer it faults on, or
\* Loops when the walk has visited more blocks than the heap holds
RECURSIVE Find(_, _, _, _)
Find(bl, curr, tag, fuel) ==
  IF ~Live(bl, curr) THEN curr
  ELSE IF fuel = 0 THEN Loops
  ELSE IF bl[curr].next # NULL /\ bl[curr].tag # tag
       THEN Find(bl, bl[curr].next, tag, fuel - 1)
       ELSE curr

\* the test of line 131 without curr->valid == 1
IsHitNoValid(bl, curr, tag) == bl[curr].tag = tag

\* if (curr->tag == tag && curr->valid == 1)
IsHit(bl, curr, tag) == bl[curr].tag = tag /\ bl[curr].valid = 1

\* the test of line 171 written with > in place of >=
SetFullOffByOne(sz) == sz > E

\* if (size[set_index] >= E)
SetFull(sz) == sz >= E

\* ------------------------------------------------------- history helpers
\* the sequence sq without x
Without(sq, x) == SelectSeq(sq, LAMBDA y : y # x)

\* x moved (or put) in front of sq
ToFront(sq, x) == << x >> \o Without(sq, x)

\* the history sq with the entries of the block tagged t moved in front
Touched(sq, t) ==
  SelectSeq(sq, LAMBDA y : ToInt(y) = t) \o SelectSeq(sq, LAMBDA y : ToInt(y) # t)

\* the history sq without the entries of the block tagged t
Dropped(sq, t) == SelectSeq(sq, LAMBDA y : ToInt(y) # t)

\* ---------------------------------------------------------- accessData
\* The state accessData leaves, as a record; out tells how the call went:
\*   "hit", "miss" (no eviction), "evict" (miss with eviction)  - returned
\*   "segv" (NULL dereferenced), "uaf" (freed block dereferenced),
\*   "hang" (the lookup loop never ends)                   - did not return
Unchanged(o) ==
  [blocks |-> blocks, head |-> LRU_head, tail |-> LRU_tail, size |-> size,
   hit |-> hit_count, miss |-> miss_count, evict |-> eviction_count,
   mru |-> mru, nomem |-> nomem, out |-> o]

\* lines 140-144: the hit block has a predecessor and a successor
HitMiddle(bl, hd, curr) ==
  LET b1 == [bl EXCEPT ![bl[curr].prev].next = bl[curr].next]
      b2 == [b1 EXCEPT ![b1[curr].next].prev = b1[curr].prev]
      b3 == [b2 EXCEPT ![curr].next = hd]
  IN  [b3 EXCEPT ![curr].prev = NULL]

\* lines 148-153 without curr->next = LRU_head of line 152
HitTailNoNext(bl, hd, curr) ==
  LET b1 == [bl EXCEPT ![bl[curr].prev].next = NULL]
      b2 == [b1 EXCEPT ![curr].prev = NULL]
  IN  [b2 EXCEPT ![hd].prev = curr]

\* lines 148-153: the hit block has a predecessor and no successor
HitTail(bl, hd, curr) ==
  LET b1 == [bl EXCEPT ![bl[curr].prev].next = NULL]
      b2 == [b1 EXCEPT ![curr].prev = NULL]
      b3 == [b2 EXCEPT ![hd].prev = curr]
  IN  [b3 EXCEPT ![curr].next = hd]

\* hit_count++
HitStep(n) == n + 1

\* lines 133-157
HitBranch(i, curr) ==
  LET hd   == LRU_head[i]
      p    == blocks[curr].prev
      n    == blocks[curr].next
      base == [Unchanged("hit") EXCEPT !.hit = HitStep(hit_count),
                                       !.mru[i] = Touched(mru[i], blocks[curr].tag)]
  IN  IF size[i] > 1 /\ p # NULL
      THEN IF ~Live(blocks, p) THEN [base EXCEPT !.out = Fault(p)]
           ELSE IF n # NULL
           THEN IF ~Live(blocks, n) THEN [base EXCEPT !.out = Fault(n)]
                ELSE [base EXCEPT !.blocks = HitMiddle(blocks, hd, curr),
                                  !.head[i] = curr]
           ELSE [base EXCEPT !.blocks = HitTail(blocks, hd, curr),
                             !.tail[i] = p,
                             !.head[i] = curr]
      ELSE base

\* miss_count++
MissStep(n) == n + 1

\* eviction_count++
EvictStep(n) == n + 1

\* lines 163-167 with miss_count++ left to the other branch alone
FillFirstUncounted(i, curr, tag, full) ==
  [Unchanged("miss") EXCEPT
     !.blocks = [blocks EXCEPT ![curr].tag = tag, ![curr].valid = 1],
     !.head[i] = curr,
     !.tail[i] = curr,
     !.size[i] = size[i] + 1,
     !.mru[i] = << full >>]

\* lines 163-167 and 191: the set is empty, its first block is filled in
\* place
FillFirst(i, curr, tag, full) ==
  [Unchanged("miss") EXCEPT
     !.blocks = [blocks EXCEPT ![curr].tag = tag, ![curr].valid = 1],
     !.head[i] = curr,
     !.tail[i] = curr,
     !.size[i] = size[i] + 1,
     !.miss = MissStep(miss_count),
     !.mru[i] = << full >>]

\* lines 181-191 without the size[set_index]++ of line 189
InsertFrontNoSize(st, i, tag, full, mallocOk, o) ==
  LET hd   == st.head[i]
      temp == IF mallocOk THEN Malloc(st.blocks) ELSE NULL
  IN  IF ~Live(st.blocks, hd) THEN [st EXCEPT !.out = Fault(hd)]
      ELSE IF temp = NULL
           THEN [st EXCEPT !.blocks = [st.blocks EXCEPT ![hd].prev = NULL],
                           !.nomem = TRUE,
                           !.out = Fault(temp)]
      ELSE [st EXCEPT
              !.blocks = Store([st.blocks EXCEPT ![hd].prev = temp],
                               temp, Block(tag, 1, hd, NULL)),
              !.head[i] = temp,
              !.miss = MissStep(st.miss),
              !.mru[i] = << full >> \o st.mru[i],
              !.out = o]

\* lines 181-191, from the state st the eviction (if any) left
InsertFront(st, i, tag, full, mallocOk, o) ==
  LET hd   == st.head[i]
      temp == IF mallocOk THEN Malloc(st.blocks) ELSE NULL
  IN  IF ~Live(st.blocks, hd) THEN [st EXCEPT !.out = Fault(hd)]
      ELSE IF temp = NULL
           THEN [st EXCEPT !.blocks = [st.blocks EXCEPT ![hd].prev = NULL],
                           !.nomem = TRUE,
                           !.out = Fault(temp)]
      ELSE [st EXCEPT
              !.blocks = Store([st.blocks EXCEPT ![hd].prev = temp],
                               temp, Block(tag, 1, hd, NULL)),
              !.head[i] = temp,
              !.size[i] = st.size[i] + 1,
              !.miss = MissStep(st.miss),
              !.mru[i] = << full >> \o st.mru[i],
              !.out = o]

\* lines 173-178: the tail is unlinked and freed; st.out is "evict" when
\* all six statements ran, and the fault otherwise
EvictTail(i) ==
  LET temp    == LRU_tail[i]
      newTail == blocks[temp].prev
      b1      == Free(blocks, temp)
      gone    == [Unchanged("evict") EXCEPT !.blocks = b1,
                                            !.tail[i] = newTail,
                                            !.mru[i] = Dropped(mru[i], blocks[temp].tag)]
  IN  IF ~Live(blocks, temp) THEN Unchanged(Fault(temp))
      ELSE IF ~Live(b1, newTail) THEN [gone EXCEPT !.out = Fault(newTail)]
      ELSE [gone EXCEPT !.blocks = [b1 EXCEPT ![newTail].next = NULL],
                        !.evict = EvictStep(eviction_count),
                        !.size[i] = size[i] - 1]

\* lines 161-191
MissBranch(i, curr, tag, full, mallocOk) ==
  IF size[i] = 0 THEN FillFirst(i, curr, tag, full)
  ELSE IF SetFull(size[i])
       THEN LET st == EvictTail(i)
            IN  IF st.out = "evict"
                THEN InsertFront(st, i, tag, full, mallocOk, "evict")
                ELSE st
       ELSE InsertFront(Unchanged("miss"), i, tag, full, mallocOk, "miss")

\* lines 113-193
AccessData(a, mallocOk) ==
  LET i    == SetIndex(a)
      tag  == Tag(a)
      curr == Find(blocks, LRU_head[i], tag, Cardinality(DOMAIN blocks))
  IN  IF curr = Loops THEN Unchanged("hang")
      ELSE IF ~Live(blocks, curr) THEN Unchanged(Fault(curr))
      ELSE IF IsHit(blocks, curr, tag) THEN HitBranch(i, curr)
      ELSE MissBranch(i, curr, tag, ShiftRight(a, s + b), mallocOk)

Returned(o) == o \in {"hit", "miss", "evict"}

\* ------------------------------------------------- reference LRU cache
\* What the simulated cache is: 2^s independent sets, each a sequence of at
\* most E tags ordered by recency, a tag being all of address >> (s+b).
RefTag(a) == ShiftRight(a, s + b)

RefAccess(sq, t) ==
  IF \E k \in 1 .. Len(sq) : sq[k] = t
  THEN [seq |-> ToFront(sq, t), out |-> "hit"]
  ELSE IF Len(sq) < E
       THEN [seq |-> << t >> \o sq, out |-> "miss"]
       ELSE [seq |-> << t >> \o SubSeq(sq, 1, Len(sq) - 1), out |-> "evict"]

\* ---------------------------------------------------------------- Init
EmptyMap == [i \in {} |-> 0]

Init ==
  /\ s \in 0 .. MaxS
  /\ E \in 0 .. MaxE
  /\ b \in 0 .. MaxB
  /\ pc = "start"
  /\ blocks = EmptyMap
  /\ LRU_head = EmptyMap
  /\ LRU_tail = EmptyMap
  /\ size = EmptyMap
  /\ set_index = 0
  /\ hit_count = 0
  /\ miss_count = 0
  /\ eviction_count = 0
  /\ addr = {}
  /\ nrec = 0
  /\ out = "none"
  /\ mru = EmptyMap
  /\ ref = EmptyMap
  /\ expected = 0
  /\ nomem = FALSE

\* ---------------------------------------------------------------- main
\* the test of line 239 without E == 0
BadConfigNoE == s = 0 \/ b = 0

\* if (s == 0 || E == 0 || b == 0 || trace_file == NULL)
BadConfig == s = 0 \/ E = 0 \/ b = 0

\* int num_sets = pow(2.0, s);
NumSets == Pow2(s)

\* lines 238-273: reject the configuration, or build the cache: one
\* invalid block tagged -1 per set, every size 0, LRU_tail not written
Main ==
  /\ pc = "start"
  /\ IF BadConfig
     THEN /\ pc' = "rejected"
          /\ UNCHANGED << blocks, LRU_head, LRU_tail, size, mru, ref >>
     ELSE /\ pc' = "replay"
          /\ blocks' = [p \in 1 .. NumSets |-> Block(MinusOne, 0, NULL, NULL)]
          /\ LRU_head' = [i \in 0 .. (NumSets - 1) |-> i + 1]
          /\ LRU_tail' = [i \in 0 .. (NumSets - 1) |-> Uninit]
          /\ size' = [i \in 0 .. (NumSets - 1) |-> 0]
          /\ mru' = [i \in 0 .. (NumSets - 1) |-> << >>]
          /\ ref' = [i \in 0 .. (NumSets - 1) |-> << >>]
  /\ UNCHANGED << s, E, b, set_index, hit_count, miss_count, eviction_count,
                  addr, nrec, out, expected, nomem >>

\* --------------------------------------------------------- replayTrace
\* one call accessData(a); the process goes on at nextpc when the call
\* returns, and the record then owes `owed` accesses
Call(a, mallocOk, nextpc, owed) ==
  \E r \in { AccessData(a, mallocOk) } :
    LET i  == SetIndex(a)
        ra == RefAccess(ref[i], RefTag(a))
    IN  /\ set_index' = i
        /\ blocks' = r.blocks
        /\ LRU_head' = r.head
        /\ LRU_tail' = r.tail
        /\ size' = r.size
        /\ hit_count' = r.hit
        /\ miss_count' = r.miss
        /\ eviction_count' = r.evict
        /\ out' = r.out
        /\ mru' = r.mru
        /\ nomem' = r.nomem
        /\ ref' = [ref EXCEPT ![i] = ra.seq]
        /\ pc' = IF Returned(r.out) THEN nextpc
                 ELSE IF r.out = "hang" THEN "hung" ELSE "crashed"
        /\ expected' = IF Returned(r.out) THEN expected + owed ELSE expected

\* fgets reads one more record; the trace holds at most max of them
ReadRecord(max) ==
  /\ pc = "replay"
  /\ nrec < max
  /\ nrec' = nrec + 1

\* if (buf[1]=='S' || buf[1]=='L' || buf[1]=='M') with the test left out
DataOpAny(op) == op \in {"I", "S", "L", "M"}

\* if (buf[1]=='S' || buf[1]=='L' || buf[1]=='M')
DataOp(op) == op \in {"S", "L", "M"}

\* lines 326-330: one record with operation letter op and address a; a
\* data record reads its address and makes its (first) access
Record(op, a, mallocOk, max) ==
  /\ ReadRecord(max)
  /\ IF DataOp(op)
     THEN /\ addr' = a
          /\ Call(a, mallocOk, IF op = "M" THEN "modify" ELSE "replay",
                  IF op = "M" THEN 0 ELSE 1)
     ELSE UNCHANGED << pc, blocks, LRU_head, LRU_tail, size, set_index,
                       hit_count, miss_count, eviction_count, addr,
                       out, mru, ref, expected, nomem >>
  /\ UNCHANGED << s, E, b >>

\* an I record: buf[1] is none of S, L, M; its address is never read
RecordI(max) == Record("I", addr, TRUE, max)

\* an L record: one access
RecordL(a, mallocOk, max) == Record("L", a, mallocOk, max)

\* an S record: one access
RecordS(a, mallocOk, max) == Record("S", a, mallocOk, max)

\* an M record, lines 328-330: the first access
RecordM(a, mallocOk, max) == Record("M", a, mallocOk, max)

\* an M record, lines 333-334: the second access, to the same addr
ModifyAgain(mallocOk) ==
  /\ pc = "modify"
  /\ Call(addr, mallocOk, "replay", 2)
  /\ UNCHANGED << s, E, b, addr, nrec >>

\* fgets returns NULL: fclose, printSummary, return 0
EndOfTrace ==
  /\ pc = "replay"
  /\ pc' = "done"
  /\ UNCHANGED << s, E, b, blocks, LRU_head, LRU_tail, size, set_index,
                  hit_count, miss_count, eviction_count, addr, nrec,
                  out, mru, ref, expected, nomem >>

\* the process, replaying a trace of at most max records over addresses
\* A, each malloc call succeeding or not as Oks allows
Run(A, Oks, max) ==
  \/ Main
  \/ RecordI(max)
  \/ \E a \in A, ok \in Oks : RecordL(a, ok, max)
  \/ \E a \in A, ok \in Oks : RecordS(a, ok, max)
  \/ \E a \in A, ok \in Oks : RecordM(a, ok, max)
  \/ \E ok \in Oks : ModifyAgain(ok)
  \/ EndOfTrace

\* every configuration up to the bounds, traces over Addrs
Next == Run(Addrs, {TRUE}, MaxTrace)

Spec == Init /\ [][Next]_vars

\* the largest configuration alone, longer traces within one set
InitDeep == Init /\ s = MaxS /\ E = MaxE /\ b = MaxB

NextDeep == Run(DeepAddrs, {TRUE}, MaxDeep)

SpecDeep == InitDeep /\ [][NextDeep]_vars

\* every configuration, traces over addresses that differ in high bits
NextWide == Run(WideAddrs, {TRUE}, MaxTrace)

SpecWide == Init /\ [][NextWide]_vars

\* every configuration, traces over Addrs, malloc free to return NULL
NextOOM == Run(Addrs, BOOLEAN, MaxTrace)

SpecOOM == Init /\ [][NextOOM]_vars

\* ======================================================== properties
Sets == DOMAIN LRU_head

\* the valid blocks of set i, front to back, and their tags
ValidBlocks(i) == SelectSeq(List(i), LAMBDA p : blocks[p].valid = 1)

Tags(i) == [k \in 1 .. Len(ValidBlocks(i)) |-> blocks[ValidBlocks(i)[k]].tag]

TagSet(i) == { Tags(i)[k] : k \in 1 .. Len(ValidBlocks(i)) }

\* the process is between two accesses, or has finished
Running == pc \in {"replay", "modify", "done"}

\* this step is one call of accessData (returning or not)
AccessStep ==
  /\ pc \in {"replay", "modify"}
  /\ \/ hit_count' # hit_count
     \/ miss_count' # miss_count
     \/ pc' \in {"crashed", "hung"}

\* the call of this step looks up a tag that no valid block of the set
\* it goes to carries, and that set holds E valid blocks
MissOnFull ==
  /\ AccessStep
  /\ Tag(addr') \notin TagSet(set_index')
  /\ Len(ValidBlocks(set_index')) = E

\* C1: whenever accessData misses on a set that holds E valid blocks, the
\* block that leaves the set is the one whose last access (hit or fill) is
\* the oldest among the set's blocks, and no other block leaves.
EvictsLeastRecent ==
  [][ MissOnFull =>
        \A i \in Sets :
          i = set_index' =>
            TagSet(i) \ (TagSet(i))' = { ToInt(mru[i][Len(mru[i])]) } ]_vars

\* C2: after an access that hits tag T, T's block is first in the set's
\* ordering and the other blocks keep their relative order.
HitMovesToFront ==
  [][ (AccessStep /\ out' = "hit") =>
        \A i \in Sets :
          i = set_index' => (Tags(i))' = ToFront(Tags(i), Tag(addr')) ]_vars

\* C3: between accesses every set holds at most E valid blocks, and no two
\* valid blocks of a set carry the same tag.
AtMostEDistinct ==
  Running =>
    \A i \in Sets :
      \A tg \in { Tags(i) } :
        /\ Len(tg) <= E
        /\ \A j, k \in 1 .. Len(tg) : j # k => tg[j] # tg[k]

\* a set of the largest associativity is full right after an eviction
FullSetAfterEviction ==
  /\ pc = "replay"
  /\ E = MaxE
  /\ out = "evict"
  /\ \E i \in Sets : Len(ValidBlocks(i)) = E

\* C4: with a valid configuration and malloc succeeding, no access
\* dereferences NULL or a freed block (or fails to return).
NoFatalError == pc \notin {"crashed", "hung"} /\ out \notin {"segv", "uaf", "hang"}

\* C5: every access has the outcome (hit, miss, miss with eviction) it has
\* in the reference LRU cache run on the same accesses.
MatchesReference ==
  [][ AccessStep =>
        out' = RefAccess(ref[set_index'], RefTag(addr')).out ]_vars

\* C6: once a prefix of the records is processed, hit_count + miss_count is
\* the number of accesses those records owe (1 per L or S, 2 per M, 0 per
\* I), and eviction_count <= miss_count.
CounterConservation ==
  /\ pc \in {"replay", "done"} => hit_count + miss_count = expected
  /\ Running => eviction_count <= miss_count

\* a finished run with hits, evictions and an M record among its records
MixedRunDone ==
  /\ pc = "done"
  /\ hit_count >= 2
  /\ eviction_count >= 1
  /\ expected > nrec

\* C7: a call of accessData adds 1 to exactly one of hit_count and
\* miss_count; it adds 1 to eviction_count when it misses on a set that
\* holds E valid blocks, and leaves eviction_count alone otherwise; no
\* counter ever decreases.
CounterStep ==
  [][ /\ hit_count' >= hit_count
      /\ miss_count' >= miss_count
      /\ eviction_count' >= eviction_count
      /\ AccessStep =>
           /\ \/ hit_count' = hit_count + 1 /\ miss_count' = miss_count
              \/ hit_count' = hit_count /\ miss_count' = miss_count + 1
           /\ eviction_count' =
                eviction_count + (IF MissOnFull THEN 1 ELSE 0) ]_vars

\* C8: an M record makes two calls of accessData on the same address and
\* the second one hits: the record adds (hit, hit) or (miss with at most one
\* eviction, hit) to the counters.
ModifyHitsTwice ==
  [][ /\ (\E a \in Addrs : RecordM(a, TRUE, MaxTrace)) =>
           /\ pc' = "modify"
           /\ Returned(out')
           /\ eviction_count' <= eviction_count + 1
      /\ pc = "modify" =>
           /\ pc' = "replay"
           /\ addr' = addr
           /\ out' = "hit"
           /\ hit_count' = hit_count + 1 ]_vars

\* C9: with E = 1, an access whose tag differs from that of the set's one
\* valid block is a miss that evicts it: miss_count and eviction_count grow
\* by 1, the set then holds one valid block with the new tag, and the
\* replay goes on.
SingleLineEvicts ==
  [][ ( /\ E = 1
        /\ AccessStep
        /\ Len(ValidBlocks(set_index')) = 1
        /\ Tags(set_index')[1] # Tag(addr') ) =>
        /\ miss_count' = miss_count + 1
        /\ eviction_count' = eviction_count + 1
        /\ hit_count' = hit_count
        /\ \A i \in Sets : i = set_index' => (Tags(i))' = << Tag(addr') >>
        /\ pc' \in {"replay", "modify"} ]_vars

\* C10: an access hits a block only if address >> (s+b), taken whole, is
\* the same for it and for the access that filled the block.
FullWidthTag ==
  [][ (AccessStep /\ out' = "hit") =>
        \A i \in Sets :
          i = set_index' =>
            \A k \in 1 .. Len(mru[i]) :
              ToInt(mru[i][k]) = Tag(addr') => mru[i][k] = RefTag(addr') ]_vars

\* bits b .. b+s-1 of address a, read as a number: (a >> b) mod 2^s
ClaimedSet(a) == Value({ k \in 0 .. (s - 1) : (k + b) \in a })

\* C11: an access to address a works on set (a >> b) mod 2^s, an index in
\* 0 .. 2^s - 1, and leaves every other set as it was: its head and tail,
\* its size, the blocks on its list and their order.
SetIndependence ==
  [][ AccessStep =>
        /\ set_index' = ClaimedSet(addr')
        /\ set_index' \in 0 .. (NumSets - 1)
        /\ \A j \in Sets :
             j # ClaimedSet(addr') =>
               /\ LRU_head'[j] = LRU_head[j]
               /\ LRU_tail'[j] = LRU_tail[j]
               /\ size'[j] = size[j]
               /\ (List(j))' = List(j)
               /\ \A k \in 1 .. Len(List(j)) :
                    blocks'[List(j)[k]] = blocks[List(j)[k]] ]_vars

\* set 0 is full and has just evicted a block while set 1 holds one
EvictionBesideOtherSet ==
  /\ pc = "replay"
  /\ out = "evict"
  /\ set_index = 0
  /\ \E j \in Sets : j # 0 /\ size[j] = 1 /\ Len(ValidBlocks(j)) = 1

\* C12: with a valid configuration the run stops nowhere but at the end of
\* the trace, where the counters are reported: once started, the process
\* is reading records, inside an M record, or done; no accessData call
\* fails to return.
RunsToCompletion ==
  (~BadConfig /\ pc # "start") => (Running /\ (Returned(out) \/ out = "none"))

\* C13: when one of s, E, b is zero the run is rejected before the cache
\* is built: no set and no block exists, accessData is never called (no
\* record is read, no outcome is set) and the three counters stay 0.
RejectsZeroConfig ==
  (s = 0 \/ E = 0 \/ b = 0) =>
     /\ pc \in {"start", "rejected"}
     /\ Sets = {}
     /\ DOMAIN blocks = {}
     /\ nrec = 0
     /\ out = "none"
     /\ hit_count = 0
     /\ miss_count = 0
     /\ eviction_count = 0

\* a run with E = 0 and s, b positive has been rejected
RejectedForE == pc = "rejected" /\ E = 0 /\ s > 0 /\ b > 0

\* C14: processing an I record makes no accessData call and leaves every
\* set (its blocks, their order, its size) and the three counters as they
\* were.
IgnoresInstructionFetch ==
  [][ RecordI(MaxTrace) =>
        UNCHANGED << blocks, LRU_head, LRU_tail, size, set_index, hit_count,
                     miss_count, eviction_count, out, expected >> ]_vars

\* two records have been processed, one of them a load or store and the
\* other an I record: one access is owed and one was made
FetchBesideLoad ==
  /\ pc = "replay"
  /\ nrec = 2
  /\ expected = 1
  /\ hit_count + miss_count = 1

\* C15: when malloc returns NULL during a miss, the run stops at that
\* access in a defined error outcome: it is not ended by a memory fault, it
\* reads no further record and it never reaches the report.
AllocationFailureIsFatal ==
  nomem =>
    /\ pc \notin {"replay", "modify", "done"}
    /\ out \notin {"segv", "uaf", "hang"}

\* an access whose tag no valid block of its set holds, the set holding
\* fewer than E valid blocks
MissWithRoom ==
  /\ AccessStep
  /\ Tag(addr') \notin TagSet(set_index')
  /\ Len(ValidBlocks(set_index')) < E

\* C17: a miss on a set holding fewer than E valid blocks (none included)
\* puts a valid block with the query tag first, makes size grow by exactly
\* 1, removes no block and keeps the blocks already there, in their order,
\* behind the new one; nothing is evicted.
MissWithRoomInserts ==
  [][ MissWithRoom =>
        \A i \in Sets :
          i = set_index' =>
            /\ out' = "miss"
            /\ (Tags(i))' = << Tag(addr') >> \o Tags(i)
            /\ size'[i] = size[i] + 1
            /\ Len((ValidBlocks(i))') = Len(ValidBlocks(i)) + 1
            /\ SubSeq((ValidBlocks(i))', 2, Len((ValidBlocks(i))'))
                  = ValidBlocks(i)
            /\ miss_count' = miss_count + 1
            /\ eviction_count' = eviction_count ]_vars

\* the last access missed and found room in a set that held two blocks
ThirdBlockInserted ==
  /\ pc = "replay"
  /\ out = "miss"
  /\ \E i \in Sets : i = set_index /\ Len(ValidBlocks(i)) = 3 /\ size[i] = 3

\* C18: a hit changes nothing but the order: the set's size and the
\* collection of tags its valid blocks hold are as before, and when the hit
\* block was already first the blocks and their order are as before too.
HitKeepsContents ==
  [][ (AccessStep /\ out' = "hit") =>
        \A i \in Sets :
          i = set_index' =>
            \A before \in { Tags(i) }, after \in { (Tags(i))' } :
              /\ size'[i] = size[i]
              /\ Len(after) = Len(before)
              /\ { after[k] : k \in 1 .. Len(after) }
                    = { before[k] : k \in 1 .. Len(before) }
              /\ (Len(before) >= 1 /\ before[1] = Tag(addr')) =>
                   /\ after = before
                   /\ (ValidBlocks(i))' = ValidBlocks(i) ]_vars

\* after three misses in set 0, the one hit of the run has moved the block
\* filled first (the one main allocated) from the back to the front
HitOnTailOfThree ==
  /\ pc = "replay"
  /\ out = "hit"
  /\ hit_count = 1
  /\ miss_count = 3
  /\ set_index = 0
  /\ size[0] = 3
  /\ LRU_head[0] = 1

\* C19: the cache main builds has exactly 2^s sets, numbered from 0, each
\* of size 0 and without a valid block; and an access to a set without a
\* valid block is a miss without eviction that leaves the set holding the
\* query tag alone, whatever the tag, -1 included.
FreshCacheMisses ==
  [][ /\ (pc = "start" /\ pc' = "replay") =>
           /\ DOMAIN LRU_head' = 0 .. (Pow2(s) - 1)
           /\ DOMAIN size' = 0 .. (Pow2(s) - 1)
           /\ \A i \in DOMAIN size' :
                size'[i] = 0 /\ (ValidBlocks(i))' = << >>
      /\ \A i \in Sets :
           (AccessStep /\ i = set_index' /\ size[i] = 0) =>
             /\ ValidBlocks(i) = << >>
             /\ out' = "miss"
             /\ miss_count' = miss_count + 1
             /\ hit_count' = hit_count
             /\ eviction_count' = eviction_count
             /\ size'[i] = 1
             /\ (Tags(i))' = << Tag(addr') >> ]_vars

\* the first access of the run carried the tag -1 and missed
MinusOneTagFilled ==
  /\ pc = "replay"
  /\ out = "miss"
  /\ hit_count + miss_count = 1
  /\ \E i \in Sets : i = set_index /\ Tags(i) = << MinusOne >>

\* C20: after every completed access, in each set of size at least 1 the
\* next-chain from LRU_head visits exactly size[i] blocks, all valid, and
\* ends at the block LRU_tail names, whose next is NULL; LRU_head's prev is
\* NULL and the prev of every other block is the block just before it.
ListWellFormed ==
  Running =>
    \A i \in Sets :
      size[i] >= 1 =>
        \A l \in { List(i) } :
          /\ Len(l) = size[i]
          /\ \A k \in 1 .. Len(l) : blocks[l[k]].valid = 1
          /\ l[Len(l)] = LRU_tail[i]
          /\ blocks[LRU_tail[i]].next = NULL
          /\ blocks[LRU_head[i]].prev = NULL
          /\ \A k \in 2 .. Len(l) : blocks[l[k]].prev = l[k - 1]

\* ------------------------------------------------------------- typing
TypeOK ==
  /\ addr \subseteq 0 .. (ADDRESS_LENGTH - 1)
  /\ pc \in {"start", "replay", "modify", "done", "rejected", "crashed", "hung"}
  /\ out \in {"none", "hit", "miss", "evict", "segv", "uaf", "hang"}

NoUaf == out # "uaf" /\ out # "hang"

====
